---- MODULE Spec2Model ----
(***************************************************************************)
(* A model of EventList (threeML/plugins/OGIP/eventlist.py): the event     *)
(* stream given to the constructor, the active time selection, the         *)
(* background (polynomial) selection and fit, and the queries on them.     *)
(*                                                                         *)
(* Times are integers ("ticks"); SubTicks ticks make 0.00001 s, the        *)
(* resolution of the "%.5f-%.5f" strings that set_polynomial_fit_interval  *)
(* writes and parses again.  Interval strings given by the caller are      *)
(* well formed (they match the regular expression of _parse_time_interval) *)
(* and are represented by the two numbers they parse to.                   *)
(*                                                                         *)
(* An attribute that may not exist yet on the Python object is a sequence: *)
(* << >> when the attribute is missing, <<v>> when it holds v.             *)
(*                                                                         *)
(* polyfit and unbinned_polyfit (module event_polynomial) and the          *)
(* Polynomial objects they return are not part of eventlist.py: a fitted   *)
(* model is represented by the arguments of the call that produced it, and *)
(* its integrals by uninterpreted terms.                                   *)
(***************************************************************************)
EXTENDS Integers, Sequences, FiniteSets, TLC

VARIABLES
    \* the event stream and the configuration (never assigned after construction)
    arrival_times, energies, dead_time, n_channels, first_channel,
    \* threeML_config['parallel']['use-parallel']
    use_parallel,
    \* the attributes of the EventList object
    time_selection_exists, poly_fit_exists, user_poly_order,
    counts, poly_counts, poly_count_err, exposure, total_dead_time,
    active_dead_time, tmin_list, tmax_list,
    unbinned, poly_time_selections, optimal_polynomial_grade, polynomials,
    \* the last call made on the object (or on intervals_overlap): its name,
    \* its arguments, the exception it raised ("ok" for none) and what it returned
    last

config == <<arrival_times, energies, dead_time, n_channels, first_channel>>

attrs == <<time_selection_exists, poly_fit_exists, user_poly_order,
           counts, poly_counts, poly_count_err, exposure, total_dead_time,
           active_dead_time, tmin_list, tmax_list,
           unbinned, poly_time_selections, optimal_polynomial_grade, polynomials>>

vars == <<config, use_parallel, attrs, last>>

----------------------------------------------------------------------------
\* Bounds of the model

\* times are 0..MaxTime ticks
MaxTime == 2
\* ticks per 0.00001 s
SubTicks == 3
\* the most intervals one set_active_time_intervals call is given
MaxIntervals == 2
\* the most intervals intervals_overlap is given in SpecOverlap
MaxOverlapLen == 4

Ticks == 0..MaxTime

\* an attribute that does not exist / that holds v
Missing == << >>
Holding(v) == <<v>>
Exists(attr) == attr # << >>
ValueOf(attr) == attr[1]

\* None, or a value
None == << >>

----------------------------------------------------------------------------
\* Helpers for the numpy expressions

RECURSIVE SumSeq(_)
SumSeq(s) == IF s = << >> THEN 0 ELSE Head(s) + SumSeq(Tail(s))

\* np.logical_and(self._arrival_times >= tmin, self._arrival_times <= tmax),
\* as the set of the indices of the events of the mask
IntervalMask(tmin, tmax) ==
    {i \in DOMAIN arrival_times : arrival_times[i] >= tmin /\ arrival_times[i] <= tmax}

\* (mutant) the masks of the other intervals are not or'ed in
UnionMask_FirstOnly(tmins, tmaxs) == IntervalMask(tmins[1], tmaxs[1])

\* interval_masks[0] or'ed with the others
UnionMask(tmins, tmaxs) ==
    UNION {IntervalMask(tmins[j], tmaxs[j]) : j \in DOMAIN tmins}

\* self._dead_time[mask].sum()
DeadTimeSum(mask) ==
    SumSeq([i \in DOMAIN arrival_times |-> IF i \in mask THEN dead_time[1][i] ELSE 0])

\* a / b, kept as the exact fraction
Div(a, b) == [num |-> a, den |-> b]

----------------------------------------------------------------------------
\* intervals_overlap: the outer loop returns in its first iteration, so only
\* the first interval is compared with the others; an empty list falls out of
\* the loop and returns None

intervals_overlap(tmin, tmax) ==
    IF Len(tmin) = 0
    THEN FALSE
    ELSE LET this_min == tmin[1]
             this_max == tmax[1]
         IN  \E j \in 2..Len(tmin) :
                \/ this_min < tmin[j] /\ tmin[j] < this_max
                \/ this_min < tmax[j] /\ tmax[j] < this_max

----------------------------------------------------------------------------
\* The polynomial models (event_polynomial)

\* polynomial.integral(tmin, tmax) and polynomial.integral_error(tmin, tmax)
Integral(poly, tmin, tmax) == [integral_of |-> poly, from |-> tmin, to |-> tmax]
IntegralError(poly, tmin, tmax) == [integral_error_of |-> poly, from |-> tmin, to |-> tmax]

\* total_counts += integral over the intervals, in order
SumOfIntegrals(poly, tmins, tmaxs) ==
    [sum |-> [j \in DOMAIN tmins |-> Integral(poly, tmins[j], tmaxs[j])]]

\* np.sqrt of counts_err += integral_error ** 2 over the intervals, in order
QuadratureOfErrors(poly, tmins, tmaxs) ==
    [sqrt_sum_sq |-> [j \in DOMAIN tmins |-> IntegralError(poly, tmins[j], tmaxs[j])]]

----------------------------------------------------------------------------
\* The object as a record, so that one method can call another

Self ==
    [time_selection_exists |-> time_selection_exists,
     poly_fit_exists |-> poly_fit_exists,
     user_poly_order |-> user_poly_order,
     counts |-> counts,
     poly_counts |-> poly_counts,
     poly_count_err |-> poly_count_err,
     exposure |-> exposure,
     total_dead_time |-> total_dead_time,
     active_dead_time |-> active_dead_time,
     tmin_list |-> tmin_list,
     tmax_list |-> tmax_list,
     unbinned |-> unbinned,
     poly_time_selections |-> poly_time_selections,
     optimal_polynomial_grade |-> optimal_polynomial_grade,
     polynomials |-> polynomials]

Store(s) ==
    /\ time_selection_exists' = s.time_selection_exists
    /\ poly_fit_exists' = s.poly_fit_exists
    /\ user_poly_order' = s.user_poly_order
    /\ counts' = s.counts
    /\ poly_counts' = s.poly_counts
    /\ poly_count_err' = s.poly_count_err
    /\ exposure' = s.exposure
    /\ total_dead_time' = s.total_dead_time
    /\ active_dead_time' = s.active_dead_time
    /\ tmin_list' = s.tmin_list
    /\ tmax_list' = s.tmax_list
    /\ unbinned' = s.unbinned
    /\ poly_time_selections' = s.poly_time_selections
    /\ optimal_polynomial_grade' = s.optimal_polynomial_grade
    /\ polynomials' = s.polynomials

\* what a method hands back: the object after it, the exception it raised
\* ("ok" when it returned), the value it returned, and which of these it ran:
\* the degree selector ("selector"), the sequential channel loop
\* ("sequential"), the sharded worker code ("sharded"), and the assignment
\* of the fitted models to self._polynomials ("stored")
Outcome(s, exc, ret, ran) == [self |-> s, exc |-> exc, ret |-> ret, ran |-> ran]

\* range(self._first_channel, self._n_channels + self._first_channel)
ChannelRange == first_channel .. (n_channels + first_channel - 1)

----------------------------------------------------------------------------
\* EventList.set_active_time_intervals(*args); args parse to tmins, tmaxs

\* (mutant) the channel mask is not and'ed with the time mask
ChannelCounts_NoTimeMask(time_mask) ==
    [k \in 1..n_channels |->
        Cardinality({i \in DOMAIN arrival_times : energies[i] = first_channel + k - 1})]

ChannelCounts(time_mask) ==
    [k \in 1..n_channels |->
        Cardinality({i \in time_mask : energies[i] = first_channel + k - 1})]

set_active_time_intervals(self, tmins, tmaxs) ==
    LET s1 == [self EXCEPT !.time_selection_exists = TRUE]
        time_mask == UnionMask(tmins, tmaxs)
        s2 == [s1 EXCEPT !.counts = Holding(ChannelCounts(time_mask))]
        polys == ValueOf(self.polynomials)
        \* self._polynomials[chan], a 0-based index into the list
        s3 == IF self.poly_fit_exists
              THEN [s2 EXCEPT
                      !.poly_counts = Holding(
                          [k \in 1..n_channels |->
                              SumOfIntegrals(polys[first_channel + k - 1 + 1], tmins, tmaxs)]),
                      !.poly_count_err = Holding(
                          [k \in 1..n_channels |->
                              QuadratureOfErrors(polys[first_channel + k - 1 + 1], tmins, tmaxs)])]
              ELSE s2
        duration == SumSeq([j \in DOMAIN tmins |-> tmaxs[j] - tmins[j]])
        dead == IF dead_time # None THEN DeadTimeSum(time_mask) ELSE 0
        s4 == [s3 EXCEPT !.exposure = Holding(duration - dead),
                         !.total_dead_time = Holding(dead),
                         !.tmin_list = Holding(tmins),
                         !.tmax_list = Holding(tmaxs),
                         !.active_dead_time = Holding(dead)]
    IN  IF intervals_overlap(tmins, tmaxs)
        THEN Outcome(s1, "OverLappingIntervals", None, {})
        ELSE IF Len(tmins) = 0
        THEN Outcome(s1, "IndexError", None, {})
        ELSE IF self.poly_fit_exists /\ ~Exists(self.polynomials)
        THEN Outcome(s2, "AttributeError", None, {})
        ELSE IF self.poly_fit_exists /\ \E chan \in ChannelRange : chan >= Len(polys)
        THEN Outcome(s2, "IndexError", None, {})
        ELSE Outcome(s4, "ok", None, {})

----------------------------------------------------------------------------
\* EventList.get_pha_container(use_poly)

get_pha_container(self, use_poly) ==
    IF ~self.time_selection_exists
    THEN Outcome(self, "RuntimeError", None, {})
    ELSE IF use_poly
    THEN IF ~Exists(self.poly_count_err) \/ ~Exists(self.exposure) \/ ~Exists(self.poly_counts)
         THEN Outcome(self, "AttributeError", None, {})
         ELSE Outcome(self, "ok",
                 [rates |-> [k \in 1..n_channels |->
                                Div(ValueOf(self.poly_counts)[k], ValueOf(self.exposure))],
                  rate_errors |-> Holding([k \in 1..n_channels |->
                                Div(ValueOf(self.poly_count_err)[k], ValueOf(self.exposure))]),
                  n_channels |-> n_channels,
                  exposure |-> ValueOf(self.exposure),
                  is_poisson |-> FALSE], {})
    ELSE IF ~Exists(self.counts) \/ ~Exists(self.exposure)
         THEN Outcome(self, "AttributeError", None, {})
         ELSE Outcome(self, "ok",
                 [rates |-> [k \in 1..n_channels |->
                                Div(ValueOf(self.counts)[k], ValueOf(self.exposure))],
                  rate_errors |-> None,
                  n_channels |-> n_channels,
                  exposure |-> ValueOf(self.exposure),
                  is_poisson |-> TRUE], {})

----------------------------------------------------------------------------
\* The external fits.  What the environment decides for one background fit:
\* whether a call of the fit objective / minimizer raises (during the global
\* fits of the degree selection, or during a channel's fit), and the four
\* log-likelihoods the global fits of degree 0..3 return.  A log-likelihood
\* is written as its number of halves (9 stands for 4.5), so that
\* 2 * (x[0] - x[1]) is the difference of two of these numbers and can be
\* below, at and above the threshold 9.0.

LogLikeValues == {0, 9}

Externals ==
    [raises : {"none", "global", "channel"},
     log_likelihoods : [1..4 -> LogLikeValues]]

\* the events of a set of indices, in stream order: self._arrival_times[mask]
EventsOf(mask) ==
    LET idx == SelectSeq([i \in DOMAIN arrival_times |-> i], LAMBDA i : i \in mask)
    IN  [k \in DOMAIN idx |-> arrival_times[idx[k]]]

\* the Polynomial that unbinned_polyfit(events, grade, t_start, t_stop, exposure, ...)
\* returns, for the channel of the loop
unbinned_polyfit(channel, events, grade, t_start, t_stop, exp) ==
    [fit |-> "unbinned_polyfit", channel |-> channel, events |-> events,
     grade |-> grade, t_start |-> t_start, t_stop |-> t_stop, exposure |-> exp]

\* the Polynomial that polyfit(mean_time[non_zero_mask], cnts[non_zero_mask], grade,
\* exposure_per_bin[non_zero_mask], ...) returns: the bins are those of the whole
\* stream whose midpoint lies in the selections, the counts the histogram of events
polyfit(channel, events, grade, selections) ==
    [fit |-> "polyfit", channel |-> channel, histogram_of |-> events,
     grade |-> grade, bins_within |-> selections]

\* delta_loglike >= delta_threshold; best_grade = mask.nonzero()[0][-1] + 1, or 0
delta_threshold == 9

\* (mutant) the threshold itself is not enough
BestGrade_AboveThreshold(log_likelihoods) ==
    LET delta_loglike == [i \in 1..3 |-> log_likelihoods[i] - log_likelihoods[i + 1]]
        nonzero == {i \in 1..3 : delta_loglike[i] > delta_threshold}
    IN  IF nonzero = {}
        THEN 0
        ELSE (CHOOSE i \in nonzero : \A j \in nonzero : j <= i)

\* (mutant) the scan stops at the first improvement below the threshold
BestGrade_FirstBelow(log_likelihoods) ==
    LET delta_loglike == [i \in 1..3 |-> log_likelihoods[i] - log_likelihoods[i + 1]]
        below == {i \in 1..3 : delta_loglike[i] < delta_threshold}
    IN  IF below = {}
        THEN 3
        ELSE (CHOOSE i \in below : \A j \in below : i <= j) - 1

\* delta_loglike of a pair, in units: 2 * (halves / 2 - halves / 2)
BestGrade(log_likelihoods) ==
    LET delta_loglike == [i \in 1..3 |-> log_likelihoods[i] - log_likelihoods[i + 1]]
        nonzero == {i \in 1..3 : delta_loglike[i] >= delta_threshold}
    IN  IF nonzero = {}
        THEN 0
        ELSE (CHOOSE i \in nonzero : \A j \in nonzero : j <= i)

\* EventList._fit_global_and_determine_optimum_grade
fit_global_and_determine_optimum_grade(log_likelihoods) == BestGrade(log_likelihoods)

\* EventList._unbinned_fit_global_and_determine_optimum_grade
unbinned_fit_global_and_determine_optimum_grade(log_likelihoods) == BestGrade(log_likelihoods)

\* the union of the masks of the background selections
PolyMask(selections) ==
    UNION {IntervalMask(selections[j][1], selections[j][2]) : j \in DOMAIN selections}

\* total_poly_events[channel_mask]
ChannelEvents(poly_mask, channel) ==
    EventsOf({i \in poly_mask : energies[i] = channel})

\* (mutant) the forced degree is ignored
GradeOfFit_AlwaysSelected(self, selected) == selected

\* the degree a fit uses: the forced one, or the selector's
GradeOfFit(self, selected) ==
    IF self.user_poly_order = -1 THEN selected ELSE self.user_poly_order

----------------------------------------------------------------------------
\* EventList._unbinned_fit_polynomials

unbinned_fit_polynomials(self, ext) ==
    LET s1 == [self EXCEPT !.poly_fit_exists = TRUE]
        selections == ValueOf(self.poly_time_selections)
        poly_mask == PolyMask(selections)
        total_duration == SumSeq([j \in DOMAIN selections |-> selections[j][2] - selections[j][1]])
        poly_exposure == total_duration - DeadTimeSum(poly_mask)
        grade == GradeOfFit(self, unbinned_fit_global_and_determine_optimum_grade(ext.log_likelihoods))
        s2 == [s1 EXCEPT !.optimal_polynomial_grade = Holding(grade)]
        t_start == [j \in DOMAIN selections |-> selections[j][1]]
        t_stop == [j \in DOMAIN selections |-> selections[j][2]]
        fitted == [k \in 1..n_channels |->
                     unbinned_polyfit(first_channel + k - 1,
                                      ChannelEvents(poly_mask, first_channel + k - 1),
                                      grade, t_start, t_stop, poly_exposure)]
        s3 == [s2 EXCEPT !.polynomials = Holding(fitted)]
        selector == IF self.user_poly_order = -1 THEN {"selector"} ELSE {}
    IN  IF Len(selections) = 0
        THEN Outcome(s1, "IndexError", None, {})
        ELSE IF dead_time = None
        THEN Outcome(s1, "TypeError", None, {})
        ELSE IF self.user_poly_order = -1 /\ ext.raises = "global"
        THEN Outcome(s1, "FitFailure", None, selector)
        ELSE IF use_parallel
        THEN Outcome(s2, "NotImplementedError", None, selector)
        ELSE IF ext.raises = "channel"
        THEN Outcome(s2, "FitFailure", None, selector \cup {"sequential"})
        ELSE Outcome(s3, "ok", None, selector \cup {"sequential", "stored"})

\* EventList._fit_polynomials (binned)

fit_polynomials(self, ext) ==
    LET s1 == [self EXCEPT !.poly_fit_exists = TRUE]
        selections == ValueOf(self.poly_time_selections)
        poly_mask == PolyMask(selections)
        grade == GradeOfFit(self, fit_global_and_determine_optimum_grade(ext.log_likelihoods))
        s2 == [s1 EXCEPT !.optimal_polynomial_grade = Holding(grade)]
        fitted == [k \in 1..n_channels |->
                     polyfit(first_channel + k - 1,
                             ChannelEvents(poly_mask, first_channel + k - 1),
                             grade, selections)]
        s3 == [s2 EXCEPT !.polynomials = Holding(fitted)]
        selector == IF self.user_poly_order = -1 THEN {"selector"} ELSE {}
    IN  IF Len(selections) = 0
        THEN Outcome(s1, "IndexError", None, {})
        ELSE IF dead_time = None
        THEN Outcome(s1, "TypeError", None, {})
        ELSE IF self.user_poly_order = -1 /\ ext.raises = "global"
        THEN Outcome(s1, "FitFailure", None, selector)
        ELSE IF use_parallel
        THEN Outcome(s2, "NotImplementedError", None, selector)
        ELSE IF ext.raises = "channel"
        THEN Outcome(s2, "FitFailure", None, selector \cup {"sequential"})
        ELSE Outcome(s3, "ok", None, selector \cup {"sequential", "stored"})

\* the fit of the recorded mode
Refit(self, ext) ==
    IF ValueOf(self.unbinned)
    THEN unbinned_fit_polynomials(self, ext)
    ELSE fit_polynomials(self, ext)

----------------------------------------------------------------------------
\* "%.5f" % t, parsed again: t rounded to a multiple of SubTicks ticks; a t
\* half way between two multiples goes to either, as its binary value decides

Reformat(t) ==
    {m \in {SubTicks * q : q \in (t \div SubTicks)..((t \div SubTicks) + 1)} :
        2 * (IF t >= m THEN t - m ELSE m - t) <= SubTicks}

\* the ways the numbers of a set can be written and parsed again
Reformattings(ts) ==
    {f \in [ts -> UNION {Reformat(t) : t \in ts}] : \A t \in ts : f[t] \in Reformat(t)}

\* the arguments of the call of set_active_time_intervals(*tmp) at the end of
\* set_polynomial_fit_interval, one choice for every way the strings round
ReformatChoices(self) ==
    IF self.time_selection_exists /\ Exists(self.tmin_list)
    THEN LET tmins == ValueOf(self.tmin_list)
             tmaxs == ValueOf(self.tmax_list)
             ts == {tmins[j] : j \in DOMAIN tmins} \cup {tmaxs[j] : j \in DOMAIN tmaxs}
         IN  {[tmins |-> [j \in DOMAIN tmins |-> f[tmins[j]]],
               tmaxs |-> [j \in DOMAIN tmaxs |-> f[tmaxs[j]]]] : f \in Reformattings(ts)}
    ELSE {[tmins |-> << >>, tmaxs |-> << >>]}

----------------------------------------------------------------------------
\* EventList.set_polynomial_fit_interval(*time_intervals, unbinned=...)

set_polynomial_fit_interval(self, selections, unbinned_option, ext, tmp) ==
    LET s1 == [self EXCEPT !.poly_time_selections = Holding(selections),
                           !.unbinned = Holding(unbinned_option)]
        fit == Refit(s1, ext)
        s2 == [fit.self EXCEPT !.poly_fit_exists = TRUE]
    IN  IF fit.exc # "ok"
        THEN fit
        ELSE IF ~s2.time_selection_exists
        THEN Outcome(s2, "ok", None, fit.ran)
        ELSE IF ~Exists(s2.tmin_list)
        THEN Outcome(s2, "AttributeError", None, fit.ran)
        ELSE [set_active_time_intervals(s2, tmp.tmins, tmp.tmaxs) EXCEPT !.ran = fit.ran]

----------------------------------------------------------------------------
\* EventList.__set_poly_order(value): value is [is_int |-> .., v |-> ..]

\* (mutant) the value is stored before it is tested
set_poly_order_StoresThenTests(self, value, ext) ==
    LET s1 == [self EXCEPT !.user_poly_order = value.v]
    IN  IF ~value.is_int \/ ~(-1 <= value.v /\ value.v <= 4)
        THEN Outcome(s1, "AssertionError", None, {})
        ELSE IF self.poly_fit_exists
        THEN Refit(s1, ext)
        ELSE Outcome(s1, "ok", None, {})

set_poly_order(self, value, ext) ==
    LET s1 == [self EXCEPT !.user_poly_order = value.v]
    IN  IF ~value.is_int
        THEN Outcome(self, "AssertionError", None, {})
        ELSE IF ~(-1 <= value.v /\ value.v <= 4)
        THEN Outcome(self, "AssertionError", None, {})
        ELSE IF self.poly_fit_exists
        THEN Refit(s1, ext)
        ELSE Outcome(s1, "ok", None, {})

----------------------------------------------------------------------------
\* EventList.polynomials (property) and EventList.get_poly_info(): without a
\* fit both build a RuntimeError, do not raise it, and return None

polynomials_property(self) ==
    IF self.poly_fit_exists
    THEN IF Exists(self.polynomials)
         THEN Outcome(self, "ok", self.polynomials, {})
         ELSE Outcome(self, "AttributeError", None, {})
    ELSE Outcome(self, "ok", None, {})

get_poly_info(self) ==
    IF self.poly_fit_exists
    THEN IF Exists(self.polynomials)
         THEN Outcome(self, "ok",
                 Holding([coefficents |-> [k \in DOMAIN ValueOf(self.polynomials) |->
                                [coefficients_of |-> ValueOf(self.polynomials)[k]]],
                          error |-> [k \in DOMAIN ValueOf(self.polynomials) |->
                                [error_of |-> ValueOf(self.polynomials)[k]]]]), {})
         ELSE Outcome(self, "AttributeError", None, {})
    ELSE Outcome(self, "ok", None, {})

----------------------------------------------------------------------------
\* Construction: EventList.__init__

NChannels == 2

\* the attributes after __init__
Constructed ==
    /\ user_poly_order = -1
    /\ time_selection_exists = FALSE
    /\ poly_fit_exists = FALSE
    /\ counts = Missing
    /\ poly_counts = Missing
    /\ poly_count_err = Missing
    /\ exposure = Missing
    /\ total_dead_time = Missing
    /\ active_dead_time = Missing
    /\ tmin_list = Missing
    /\ tmax_list = Missing
    /\ unbinned = Missing
    /\ poly_time_selections = Missing
    /\ optimal_polynomial_grade = Missing
    /\ polynomials = Missing

\* The streams of Spec and SpecDegree: one event on every tick, the channels
\* taken in turn, with no dead-time array or a dead time of one tick per
\* event; the channels start at 0 or at 1
Init ==
    /\ n_channels = NChannels
    /\ first_channel \in {0, 1}
    /\ arrival_times = [i \in 1..(MaxTime + 1) |-> i - 1]
    /\ energies = [i \in 1..(MaxTime + 1) |-> first_channel + ((i - 1) % n_channels)]
    /\ dead_time \in {None, Holding([i \in 1..(MaxTime + 1) |-> 1])}
    /\ use_parallel = FALSE
    /\ Constructed
    /\ last = [op |-> "__init__", exc |-> "ok"]

----------------------------------------------------------------------------
\* The calls a host application makes.  Every call records itself in last.
\* The sets of arguments a call draws from are parameters, so that each
\* specification below bounds them in its own way.

\* the interval lists of 0..maxlen intervals taken from a set of <<tmin, tmax>>
IntervalLists(intervals, maxlen) ==
    UNION {[1..n -> intervals] : n \in 0..maxlen}

TminsOf(list) == [j \in DOMAIN list |-> list[j][1]]
TmaxsOf(list) == [j \in DOMAIN list |-> list[j][2]]

\* <<tmin, tmax>> with tmin < tmax, and every pair of ticks
ProperIntervals == {iv \in Ticks \X Ticks : iv[1] < iv[2]}
AnyIntervals == Ticks \X Ticks

CallSetActiveTimeIntervals(lists) ==
    \E args \in lists :
        LET r == set_active_time_intervals(Self, TminsOf(args), TmaxsOf(args))
        IN  /\ Store(r.self)
            /\ last' = [op |-> "set_active_time_intervals", no_args |-> Len(args) = 0,
                        exc |-> r.exc]
            /\ UNCHANGED <<config, use_parallel>>

CallSetPolynomialFitInterval(lists, externals) ==
    \E selections \in lists, unbinned_option \in BOOLEAN,
       ext \in externals, tmp \in ReformatChoices(Self) :
        LET r == set_polynomial_fit_interval(Self, selections, unbinned_option, ext, tmp)
        IN  /\ Store(r.self)
            /\ last' = [op |-> "set_polynomial_fit_interval", exc |-> r.exc, ran |-> r.ran]
            /\ UNCHANGED <<config, use_parallel>>

\* a value assigned to poly_order: an integer, or a float
IntValue(k) == [is_int |-> TRUE, v |-> k]
FloatValue(k) == [is_int |-> FALSE, v |-> k]

AssignPolyOrder(values, externals) ==
    \E value \in values, ext \in externals :
        LET r == set_poly_order(Self, value, ext)
        IN  /\ Store(r.self)
            /\ last' = [op |-> "poly_order", value |-> value,
                        exc |-> r.exc, ran |-> r.ran]
            /\ UNCHANGED <<config, use_parallel>>

CallGetPhaContainer ==
    \E use_poly \in BOOLEAN :
        LET r == get_pha_container(Self, use_poly)
        IN  /\ Store(r.self)
            /\ last' = [op |-> "get_pha_container", use_poly |-> use_poly,
                        exc |-> r.exc, ret |-> r.ret]
            /\ UNCHANGED <<config, use_parallel>>

ReadPolynomials ==
    LET r == polynomials_property(Self)
    IN  /\ Store(r.self)
        /\ last' = [op |-> "polynomials", exc |-> r.exc, ret |-> r.ret]
        /\ UNCHANGED <<config, use_parallel>>

CallGetPolyInfo ==
    LET r == get_poly_info(Self)
    IN  /\ Store(r.self)
        /\ last' = [op |-> "get_poly_info", exc |-> r.exc, ret |-> r.ret]
        /\ UNCHANGED <<config, use_parallel>>

\* the host changes threeML_config['parallel']['use-parallel']
SetUseParallel ==
    /\ use_parallel' = ~use_parallel
    /\ last' = [op |-> "use-parallel", exc |-> "ok"]
    /\ UNCHANGED <<config, attrs>>

----------------------------------------------------------------------------
\* Spec: the life of one object.  Active selections of up to two of two
\* intervals, a background selection of no or one interval, fits in both
\* modes that succeed or fail, a free or a forced degree.

LifeIntervals == {<<0, 1>>, <<0, MaxTime>>}

\* log-likelihoods of a flat and of a linear background
FlatOrLinear == {[i \in 1..4 |-> 0], [i \in 1..4 |-> IF i = 1 THEN 9 ELSE 0]}

LifeExternals ==
    {e \in Externals : /\ e.log_likelihoods \in FlatOrLinear
                       /\ e.raises = "global" => e.log_likelihoods[1] = 0}

LifePolyOrders == {IntValue(-1), IntValue(1)}

Next ==
    \/ CallSetActiveTimeIntervals(IntervalLists(LifeIntervals, 2))
    \/ CallSetPolynomialFitInterval(IntervalLists({<<0, MaxTime>>}, 1), LifeExternals)
    \/ AssignPolyOrder(LifePolyOrders, LifeExternals)
    \/ CallGetPhaContainer
    \/ ReadPolynomials
    \/ CallGetPolyInfo

Spec == Init /\ [][Next]_vars

----------------------------------------------------------------------------
\* SpecDegree: the degree of the fits.  One background selection, no active
\* selection, every value assigned to poly_order, log-likelihoods that make
\* the selector choose each of the degrees 0..3, sequential and parallel
\* configuration.

AllPolyOrders == {IntValue(k) : k \in -2..5} \cup {FloatValue(2)}

\* log-likelihoods for which the selector chooses degree g
ChoosingDegree(g) == [i \in 1..4 |-> IF i = g THEN 9 ELSE 0]

DegreeExternals ==
    {e \in Externals : /\ e.log_likelihoods \in {ChoosingDegree(g) : g \in 0..3}
                       /\ e.raises = "global" => e.log_likelihoods = ChoosingDegree(0)}

NextDegree ==
    \/ CallSetPolynomialFitInterval({<<<<0, MaxTime>>>>}, DegreeExternals)
    \/ AssignPolyOrder(AllPolyOrders, DegreeExternals)
    \/ SetUseParallel

SpecDegree == Init /\ [][NextDegree]_vars

----------------------------------------------------------------------------
\* SpecActive: the active selection.  One event on every tick, with channel
\* tags inside and outside the channel range, and with no dead-time array or
\* dead times 1, 2, 4, ... ticks (so that a sum of dead times tells which
\* events were summed); every list of up to MaxIntervals intervals
\* tmin < tmax; one background fit, so that the selection is also made with
\* polynomial models present.

InitActive ==
    /\ n_channels = NChannels
    /\ first_channel \in {0, 1}
    /\ arrival_times = [i \in 1..(MaxTime + 1) |-> i - 1]
    /\ energies = [i \in 1..(MaxTime + 1) |-> (i - 1) % (n_channels + 2)]
    /\ dead_time \in {None, Holding([i \in 1..(MaxTime + 1) |-> 2 ^ (i - 1)])}
    /\ use_parallel = FALSE
    /\ Constructed
    /\ last = [op |-> "__init__", exc |-> "ok"]

NoFailure == {e \in Externals : e.raises = "none" /\ e.log_likelihoods = [i \in 1..4 |-> 0]}

NextActive ==
    \/ CallSetActiveTimeIntervals(IntervalLists(ProperIntervals, MaxIntervals))
    \/ CallSetPolynomialFitInterval({<<<<0, MaxTime>>>>}, NoFailure)

SpecActive == InitActive /\ [][NextActive]_vars

----------------------------------------------------------------------------
\* SpecOverlap: intervals_overlap on every list of up to MaxOverlapLen
\* intervals tmin < tmax

InitOverlap ==
    /\ n_channels = NChannels
    /\ first_channel = 0
    /\ arrival_times = << >>
    /\ energies = << >>
    /\ dead_time = None
    /\ use_parallel = FALSE
    /\ Constructed
    /\ \E args \in IntervalLists(ProperIntervals, MaxOverlapLen) :
          last = [op |-> "arguments", tmin |-> TminsOf(args), tmax |-> TmaxsOf(args)]

CallIntervalsOverlap ==
    /\ last.op = "arguments"
    /\ last' = [op |-> "intervals_overlap", tmin |-> last.tmin, tmax |-> last.tmax,
                ret |-> intervals_overlap(last.tmin, last.tmax)]
    /\ UNCHANGED <<config, use_parallel, attrs>>

NextOverlap == CallIntervalsOverlap

SpecOverlap == InitOverlap /\ [][NextOverlap]_vars

----------------------------------------------------------------------------
\* SpecSelector: the two degree selectors on every vector of four
\* log-likelihoods of 0..MaxLogLike halves

MaxLogLike == 10

InitSelector ==
    /\ n_channels = NChannels
    /\ first_channel = 0
    /\ arrival_times = << >>
    /\ energies = << >>
    /\ dead_time = None
    /\ use_parallel = FALSE
    /\ Constructed
    /\ \E log_likelihoods \in [1..4 -> 0..MaxLogLike] :
          last = [op |-> "log_likelihoods", log_likelihoods |-> log_likelihoods]

CallSelectors ==
    /\ last.op = "log_likelihoods"
    /\ last' = [op |-> "selectors", log_likelihoods |-> last.log_likelihoods,
                binned |-> fit_global_and_determine_optimum_grade(last.log_likelihoods),
                unbinned |-> unbinned_fit_global_and_determine_optimum_grade(last.log_likelihoods)]
    /\ UNCHANGED <<config, use_parallel, attrs>>

NextSelector == CallSelectors

SpecSelector == InitSelector /\ [][NextSelector]_vars

----------------------------------------------------------------------------
\* The claims

\* C1: a set_active_time_intervals call that is rejected because its intervals
\* overlap leaves every piece of selection state as it was before the call
\* (the selection-exists flag, the tmin/tmax lists, the observed counts, the
\* background-predicted counts and errors, the exposure, the dead time),
\* with or without a prior selection.
C1_RejectedCallAppliesNothing ==
    [][(last'.op = "set_active_time_intervals" /\ last'.exc = "OverLappingIntervals")
        => /\ time_selection_exists' = time_selection_exists
           /\ tmin_list' = tmin_list
           /\ tmax_list' = tmax_list
           /\ counts' = counts
           /\ poly_counts' = poly_counts
           /\ poly_count_err' = poly_count_err
           /\ exposure' = exposure
           /\ total_dead_time' = total_dead_time
           /\ active_dead_time' = active_dead_time]_vars

\* C2: get_pha_container raises the missing-selection error (the RuntimeError
\* of its first lines) in every state in which no set_active_time_intervals
\* call has completed, that is in which no tmin list has been stored.
C2_MissingSelectionError ==
    (last.op = "get_pha_container" /\ ~Exists(tmin_list)) => last.exc = "RuntimeError"

\* C3: without a dead-time array, set_active_time_intervals gives an exposure
\* equal to the sum of the durations, and set_polynomial_fit_interval (given a
\* selection, the external fits not failing, channels starting at 0) completes
\* without error and stores one model per channel.
C3_NoDeadTimeArray ==
    dead_time = None =>
        /\ (last.op = "set_active_time_intervals" /\ last.exc = "ok")
              => exposure = Holding(SumSeq([j \in DOMAIN ValueOf(tmin_list) |->
                                     ValueOf(tmax_list)[j] - ValueOf(tmin_list)[j]]))
        /\ (/\ last.op = "set_polynomial_fit_interval"
            /\ Len(ValueOf(poly_time_selections)) > 0
            /\ last.exc # "FitFailure"
            /\ first_channel = 0
            /\ time_selection_exists => Exists(tmin_list))
              => /\ last.exc = "ok"
                 /\ Exists(polynomials)
                 /\ Len(ValueOf(polynomials)) = n_channels

\* some interval has a bound of another interval strictly inside its open range
PairwiseOverlap(tmin, tmax) ==
    \E i \in DOMAIN tmin, j \in DOMAIN tmin :
        /\ i # j
        /\ \/ tmin[i] < tmin[j] /\ tmin[j] < tmax[i]
           \/ tmin[i] < tmax[j] /\ tmax[j] < tmax[i]

\* C4: for every list of intervals, intervals_overlap returns true exactly
\* when some interval has a bound of another interval strictly inside its
\* open range, whichever position the two intervals have in the list.
C4_EveryIntervalCompared ==
    last.op = "intervals_overlap" => (last.ret <=> PairwiseOverlap(last.tmin, last.tmax))

\* a call that stored an active selection has just completed: a call of
\* set_active_time_intervals, or one of set_polynomial_fit_interval that ended
\* by selecting the stored intervals again
ActiveSelectionJustStored ==
    /\ last.op \in {"set_active_time_intervals", "set_polynomial_fit_interval"}
    /\ last.exc = "ok"
    /\ Exists(tmin_list)

\* the arrival time t lies in the union of the intervals
InUnion(t, tmins, tmaxs) == \E j \in DOMAIN tmins : tmins[j] <= t /\ t <= tmaxs[j]

\* the sum of the durations minus the dead time of every event of the union,
\* each event once
DurationsMinusDeadTime(tmins, tmaxs) ==
    SumSeq([j \in DOMAIN tmins |-> tmaxs[j] - tmins[j]])
    - SumSeq([i \in DOMAIN arrival_times |->
                IF dead_time # None /\ InUnion(arrival_times[i], tmins, tmaxs)
                THEN ValueOf(dead_time)[i] ELSE 0])

Orderings(n) == {p \in [1..n -> 1..n] : \A i, j \in 1..n : p[i] = p[j] => i = j}

\* C5: after set_active_time_intervals on a non-overlapping interval set, the
\* stored exposure is the sum of the durations minus the dead time of the
\* events of the union, each event counted once, and a call with the same
\* intervals in any other order succeeds with the same exposure.
C5_ExposureOfUnion ==
    (ActiveSelectionJustStored /\ ~PairwiseOverlap(ValueOf(tmin_list), ValueOf(tmax_list)))
    => LET tmins == ValueOf(tmin_list)
           tmaxs == ValueOf(tmax_list)
       IN  /\ exposure = Holding(DurationsMinusDeadTime(tmins, tmaxs))
           /\ \A p \in Orderings(Len(tmins)) :
                LET r == set_active_time_intervals(Self,
                             [j \in DOMAIN tmins |-> tmins[p[j]]],
                             [j \in DOMAIN tmins |-> tmaxs[p[j]]])
                IN  r.exc = "ok" /\ r.self.exposure = exposure

\* C5 witness: a selection of two intervals that touch at an endpoint on which
\* an event with dead time sits has been stored
C5_Witness ==
    /\ last.op = "set_active_time_intervals"
    /\ last.exc = "ok"
    /\ dead_time # None
    /\ ~PairwiseOverlap(ValueOf(tmin_list), ValueOf(tmax_list))
    /\ \E j, k \in DOMAIN ValueOf(tmin_list) :
          /\ j # k
          /\ ValueOf(tmax_list)[j] = ValueOf(tmin_list)[k]
          /\ \E i \in DOMAIN arrival_times :
                arrival_times[i] = ValueOf(tmax_list)[j] /\ ValueOf(dead_time)[i] > 0

\* the events of the union of the stored active intervals
EventsInActiveUnion ==
    {i \in DOMAIN arrival_times :
        InUnion(arrival_times[i], ValueOf(tmin_list), ValueOf(tmax_list))}

\* C6 as stated: after every successful set_active_time_intervals the observed
\* counts summed over the channels equal the number of events of the stream
\* whose arrival time falls inside the union of the active intervals.
C6_CountsSumToAllEvents ==
    ActiveSelectionJustStored
    => SumSeq(ValueOf(counts)) = Cardinality(EventsInActiveUnion)

\* C6 amended: ... equal the number of events inside the union whose channel
\* tag lies in [first_channel, first_channel + n_channels).
C6_CountsSumToEventsOfChannels ==
    ActiveSelectionJustStored
    => SumSeq(ValueOf(counts)) =
          Cardinality({i \in EventsInActiveUnion :
                          first_channel <= energies[i] /\ energies[i] < first_channel + n_channels})

\* C6 witness: a selection has been stored whose union holds an event with a
\* channel tag inside the range and one with a tag outside it
C6_Witness ==
    /\ last.op = "set_active_time_intervals"
    /\ last.exc = "ok"
    /\ \E i \in EventsInActiveUnion :
          first_channel <= energies[i] /\ energies[i] < first_channel + n_channels
    /\ \E i \in EventsInActiveUnion :
          ~(first_channel <= energies[i] /\ energies[i] < first_channel + n_channels)

\* the container the claim describes, from the stored attributes
ContainerOfStoredState(use_poly) ==
    IF use_poly
    THEN [rates |-> [k \in 1..n_channels |->
                        Div(ValueOf(poly_counts)[k], ValueOf(exposure))],
          rate_errors |-> Holding([k \in 1..n_channels |->
                        Div(ValueOf(poly_count_err)[k], ValueOf(exposure))]),
          n_channels |-> n_channels,
          exposure |-> ValueOf(exposure),
          is_poisson |-> FALSE]
    ELSE [rates |-> [k \in 1..n_channels |->
                        Div(ValueOf(counts)[k], ValueOf(exposure))],
          rate_errors |-> None,
          n_channels |-> n_channels,
          exposure |-> ValueOf(exposure),
          is_poisson |-> TRUE]

\* C7 as stated: when an active selection exists (has been stored),
\* get_pha_container(use_poly=False) returns counts / exposure, no rate errors
\* and is_poisson = True, get_pha_container(use_poly=True) returns
\* poly_counts / exposure, poly_count_err / exposure and is_poisson = False,
\* both with the current exposure and n_channels, and the call changes no
\* stored state.
C7_ContainerWheneverSelected ==
    [][(last'.op = "get_pha_container" /\ Exists(tmin_list))
        => /\ last'.exc = "ok"
           /\ last'.ret = ContainerOfStoredState(last'.use_poly)
           /\ UNCHANGED attrs]_vars

\* Where the background-predicted counts are stored (or use_poly is False) the
\* container is the one described and the call changes nothing.
ContainerOfStoredCounts ==
    [][(/\ last'.op = "get_pha_container"
        /\ Exists(tmin_list)
        /\ last'.use_poly => Exists(poly_counts))
        => /\ last'.exc = "ok"
           /\ last'.ret = ContainerOfStoredState(last'.use_poly)
           /\ UNCHANGED attrs]_vars

\* C8: a background fit that stores its models while poly_order is k in 0..4
\* (a set_polynomial_fit_interval in either mode, or the refit of the
\* assignment) ends with optimal_polynomial_grade = k, the stored models are
\* of degree k and the selector has not run; with poly_order -1 the selector
\* has run.
C8_ForcedDegreeIsUsed ==
    (last.op \in {"set_polynomial_fit_interval", "poly_order"} /\ "stored" \in last.ran)
    => IF user_poly_order = -1
       THEN "selector" \in last.ran
       ELSE /\ user_poly_order \in 0..4
            /\ optimal_polynomial_grade = Holding(user_poly_order)
            /\ \A k \in DOMAIN ValueOf(polynomials) :
                  ValueOf(polynomials)[k].grade = user_poly_order
            /\ "selector" \notin last.ran

\* C8 witness: the assignment poly_order = 4 has refitted the models
C8_Witness ==
    /\ last.op = "poly_order"
    /\ "stored" \in last.ran
    /\ user_poly_order = 4
    /\ ValueOf(unbinned) = FALSE

\* C9 (for channels starting at 0): whenever an active selection and a
\* background fit exist, the stored poly_counts and poly_count_err are the
\* integrals, and quadrature sums of the integral errors, of the models stored
\* at that moment over the stored active intervals.
C9_PolyCountsOfStoredModels ==
    (first_channel = 0 /\ Exists(tmin_list) /\ poly_fit_exists /\ Exists(polynomials))
    => /\ Exists(poly_counts)
       /\ poly_counts = Holding([k \in 1..n_channels |->
              SumOfIntegrals(ValueOf(polynomials)[k], ValueOf(tmin_list), ValueOf(tmax_list))])
       /\ poly_count_err = Holding([k \in 1..n_channels |->
              QuadratureOfErrors(ValueOf(polynomials)[k], ValueOf(tmin_list), ValueOf(tmax_list))])

\* C10: with no background fit, reading polynomials, calling get_poly_info,
\* and calling get_pha_container(use_poly=True) with an active selection
\* stored each raise the missing-selection error (RuntimeError).
C10_MissingFitError ==
    ~poly_fit_exists =>
        /\ last.op \in {"polynomials", "get_poly_info"} => last.exc = "RuntimeError"
        /\ (last.op = "get_pha_container" /\ last.use_poly /\ Exists(tmin_list))
              => last.exc = "RuntimeError"

\* a value the poly_order setter must refuse
NotAnAllowedOrder(value) == ~value.is_int \/ value.v \notin {-1, 0, 1, 2, 3, 4}

\* C11: assigning poly_order a value that is not an integer, or an integer
\* outside {-1, 0, 1, 2, 3, 4}, raises an error, runs no part of a refit, and
\* leaves poly_order, optimal_polynomial_grade, the stored models and every
\* other attribute unchanged.
C11_RefusedOrderChangesNothing ==
    [][(last'.op = "poly_order" /\ NotAnAllowedOrder(last'.value))
        => /\ last'.exc = "AssertionError"
           /\ last'.ran = {}
           /\ UNCHANGED attrs]_vars

\* C11 witness: a value has been refused while a fit with stored models existed
C11_Witness ==
    /\ last.op = "poly_order"
    /\ NotAnAllowedOrder(last.value)
    /\ last.exc = "AssertionError"
    /\ poly_fit_exists
    /\ Exists(polynomials)
    /\ user_poly_order \in 0..4

\* a step in which a background fit was started: a call of
\* set_polynomial_fit_interval, or an accepted poly_order assignment while a
\* fit exists
FitStarted ==
    \/ last'.op = "set_polynomial_fit_interval"
    \/ /\ last'.op = "poly_order"
       /\ ~NotAnAllowedOrder(last'.value)
       /\ poly_fit_exists

\* what C12 says of a started fit in which the external objective did not fail
ExecutionStrategyAsConfigured ==
    IF use_parallel
    THEN /\ last'.exc = "NotImplementedError"
         /\ last'.ran \cap {"sequential", "sharded", "stored"} = {}
         /\ polynomials' = polynomials
    ELSE /\ last'.exc # "NotImplementedError"
         /\ "sharded" \notin last'.ran
         /\ last'.exc = "ok" => {"sequential", "stored"} \subseteq last'.ran

\* C12: with parallel execution enabled a background fit, binned or unbinned,
\* raises NotImplementedError and runs neither the sharded worker code nor
\* the sequential loop; with parallel execution disabled a fit never raises
\* NotImplementedError and a fit that returns has run the sequential loop.
\* (Fits in which the external objective itself fails are left aside.)
C12_ParallelRaisesNotImplemented ==
    [][(FitStarted /\ last'.exc # "FitFailure") => ExecutionStrategyAsConfigured]_vars

\* The same holds for every stream that has a dead-time array.
ParallelRaisesWithDeadTimeArray ==
    [][(FitStarted /\ last'.exc # "FitFailure" /\ dead_time # None)
        => ExecutionStrategyAsConfigured]_vars

\* 2 * (LL[d] - LL[d+1]) of the vector the selectors were given, d in 0..2
Improvement(d) == last.log_likelihoods[d + 1] - last.log_likelihoods[d + 2]

MeetsThreshold(d) == Improvement(d) >= 9

\* C13: with automatic selection, for every vector LL[0..3] the selected
\* degree is i + 1 for the largest i in 0..2 with 2 * (LL[i] - LL[i+1]) >= 9.0,
\* and 0 when no i meets the threshold; it lies in 0..3, and the binned and
\* the unbinned selector give the same degree.
C13_LargestIndexMeetingThreshold ==
    last.op = "selectors" =>
        /\ last.binned \in 0..3
        /\ last.unbinned = last.binned
        /\ IF \E i \in 0..2 : MeetsThreshold(i)
           THEN /\ last.binned \in 1..3
                /\ MeetsThreshold(last.binned - 1)
                /\ \A i \in 0..2 : MeetsThreshold(i) => i + 1 <= last.binned
           ELSE last.binned = 0

\* C13 witness: degree 2 selected on an improvement of exactly 9.0, with the
\* improvement from 0 to 1 below the threshold
C13_Witness ==
    /\ last.op = "selectors"
    /\ last.binned = 2
    /\ Improvement(1) = 9
    /\ ~MeetsThreshold(0)

\* C14 as stated: the selected degree is the smallest d in 0..3 whose
\* improvement from d to d + 1 is below 9.0 (3 when every improvement meets
\* the threshold).
C14_SmallestDegreeBelowThreshold ==
    last.op = "selectors" =>
        /\ last.binned = 3 \/ ~MeetsThreshold(last.binned)
        /\ \A d \in 0..2 : d < last.binned => MeetsThreshold(d)

\* C14 amended: the selected degree is the smallest d in 0..3 such that no
\* improvement from a degree j >= d to j + 1 meets the threshold.
C14_SmallestDegreeWithNoLaterImprovement ==
    last.op = "selectors" =>
        /\ \A j \in 0..2 : j >= last.binned => ~MeetsThreshold(j)
        /\ \A d \in 0..3 : d < last.binned => \E j \in 0..2 : j >= d /\ MeetsThreshold(j)

\* C14 witness: a degree selected although an improvement below it is under
\* the threshold
C14_Witness ==
    /\ last.op = "selectors"
    /\ last.unbinned = 3
    /\ ~MeetsThreshold(0)
    /\ ~MeetsThreshold(1)

\* the model the fitter produced for channel c: the one at position
\* c - first_channel of its channel-ordered output
ModelOfChannel(c) == ValueOf(polynomials)[c - first_channel + 1]

\* C15: for every first_channel >= 0, a call of set_active_time_intervals
\* with at least one interval that is not rejected as overlapping, made while
\* a background fit with stored models exists, completes without error, and
\* the background-predicted count and error of every channel c of the range
\* are the integrals of the model the fitter produced for channel c.
C15_ModelOfTheSameChannel ==
    (/\ last.op = "set_active_time_intervals"
     /\ ~last.no_args
     /\ last.exc # "OverLappingIntervals"
     /\ poly_fit_exists
     /\ Exists(polynomials))
    => /\ last.exc = "ok"
       /\ \A c \in ChannelRange :
            /\ ModelOfChannel(c).channel = c
            /\ ValueOf(poly_counts)[c - first_channel + 1]
                 = SumOfIntegrals(ModelOfChannel(c), ValueOf(tmin_list), ValueOf(tmax_list))
            /\ ValueOf(poly_count_err)[c - first_channel + 1]
                 = QuadratureOfErrors(ModelOfChannel(c), ValueOf(tmin_list), ValueOf(tmax_list))

\* The same holds when the channels start at 0.
ModelOfTheSameChannelFromZero == first_channel = 0 => C15_ModelOfTheSameChannel

\* the estimation mode and the background intervals a stored model was
\* fitted with
FittedUnbinned(poly) == poly.fit = "unbinned_polyfit"

FittedSelections(poly) ==
    IF FittedUnbinned(poly)
    THEN [j \in DOMAIN poly.t_start |-> <<poly.t_start[j], poly.t_stop[j]>>]
    ELSE poly.bins_within

\* C16 (for streams with a dead-time array): whenever a background fit is
\* marked as existing, exactly n_channels models are stored, all of degree
\* optimal_polynomial_grade, and the stored unbinned flag and background
\* intervals are those the stored models were fitted with, also after fits
\* that aborted.
C16_StoredFitIsConsistent ==
    (poly_fit_exists /\ dead_time # None)
    => /\ Exists(polynomials)
       /\ Len(ValueOf(polynomials)) = n_channels
       /\ \A k \in DOMAIN ValueOf(polynomials) :
            /\ ValueOf(polynomials)[k].grade = ValueOf(optimal_polynomial_grade)
            /\ FittedUnbinned(ValueOf(polynomials)[k]) = ValueOf(unbinned)
            /\ FittedSelections(ValueOf(polynomials)[k]) = ValueOf(poly_time_selections)

\* The same holds after every fit that returned.
StoredFitIsConsistentAfterSuccess ==
    (last.op \in {"set_polynomial_fit_interval", "poly_order"} /\ "stored" \in last.ran)
    => C16_StoredFitIsConsistent

\* a valid Interval Set: not empty, tmin < tmax, no two intervals overlapping
ValidIntervalSet(tmin, tmax) ==
    /\ Len(tmin) > 0
    /\ \A j \in DOMAIN tmin : tmin[j] < tmax[j]
    /\ ~PairwiseOverlap(tmin, tmax)

\* C17: the active set stored by a successful set_active_time_intervals and
\* the background set stored by a successful set_polynomial_fit_interval are
\* valid Interval Sets.
C17_StoredSetsAreValid ==
    /\ (last.op = "set_active_time_intervals" /\ last.exc = "ok")
          => ValidIntervalSet(ValueOf(tmin_list), ValueOf(tmax_list))
    /\ (last.op = "set_polynomial_fit_interval" /\ last.exc = "ok")
          => ValidIntervalSet(TminsOf(ValueOf(poly_time_selections)),
                              TmaxsOf(ValueOf(poly_time_selections)))

====
